---- MODULE Spec2Model ----
(***************************************************************************)
(* A model of telegraph_upload.py: the front-matter parser, the HTML tree  *)
(* to Telegraph node transformer, the page payload assembler and the       *)
(* on-disk account token.                                                  *)
(*                                                                         *)
(* Python values are encoded as follows.                                   *)
(*   str    a sequence of one-character strings, <<"a", "b">>              *)
(*   dict   a function whose domain is the set of keys present             *)
(*   list   a sequence                                                     *)
(*   None   the record [none |-> TRUE]                                     *)
(* Inside a Telegraph node list a text is the record [str |-> s], so that  *)
(* it can stand next to a node [tag |-> t, ...] (isinstance(x, str)).      *)
(***************************************************************************)
EXTENDS Integers, Sequences, FiniteSets, TLC

VARIABLES
    pc,            \* which step of the modelled run comes next
    md_content,    \* parse_front_matter: the document text
    fm_result,     \* parse_front_matter: the returned (metadata, body)
    soup,          \* html_to_telegraph_nodes: the parsed tree (soup.children)
    final_nodes,   \* html_to_telegraph_nodes: the returned list
    calls,         \* every process_element call made: [src, out]
    page_args,     \* create_page: [title, content, author_name]
    page_result,   \* create_page: what the call did
    token_file,    \* TOKEN_FILE: absent or its text
    token_run,     \* get_or_create_token: outcome of the latest invocation
    token_log      \* history of the invocations of this machine

vars == <<pc, md_content, fm_result, soup, final_nodes, calls,
          page_args, page_result, token_file, token_run, token_log>>

None == [none |-> TRUE]

EmptyDict == [k \in {} |-> <<>>]

(***************************************************************************)
(* str methods                                                             *)
(***************************************************************************)
\* the characters str.strip() removes that the modelled texts contain
Whitespace == {" ", "\n", "\t", "\r"}

NonSpaceAt(s) == {i \in 1..Len(s) : s[i] \notin Whitespace}

Min(S) == CHOOSE x \in S : \A y \in S : x <= y

Max(S) == CHOOSE x \in S : \A y \in S : x >= y

\* s.strip()
Strip(s) ==
    IF NonSpaceAt(s) = {} THEN <<>>
    ELSE SubSeq(s, Min(NonSpaceAt(s)), Max(NonSpaceAt(s)))

\* s.startswith(p)
StartsWith(s, p) == Len(s) >= Len(p) /\ SubSeq(s, 1, Len(p)) = p

\* s[n:]
From(s, n) == SubSeq(s, n + 1, Len(s))

\* s[:n]
Prefix(s, n) == SubSeq(s, 1, IF n < Len(s) THEN n ELSE Len(s))

RECURSIVE Split(_)
\* s.split('\n')
Split(s) ==
    LET nl == {i \in 1..Len(s) : s[i] = "\n"} IN
    IF nl = {} THEN <<s>>
    ELSE <<SubSeq(s, 1, Min(nl) - 1)>> \o Split(From(s, Min(nl)))

RECURSIVE Join(_)
\* '\n'.join(lines)
Join(lines) ==
    IF lines = <<>> THEN <<>>
    ELSE IF Len(lines) = 1 THEN lines[1]
    ELSE lines[1] \o <<"\n">> \o Join(Tail(lines))

(***************************************************************************)
(* parse_front_matter                                                      *)
(***************************************************************************)
TitleMark == <<"#", " ">>
AuthorMark == <<"B", "y", " ">>
PublishedMark == <<"P", "u", "b", "l", "i", "s", "h", "e", "d", ":">>
WordCountMark == <<"W", "o", "r", "d", " ", "c", "o", "u", "n", "t", ":">>
RuleLine == <<"-", "-", "-">>

FirstAt(s, from, ch) ==
    LET at == {i \in from..Len(s) : s[i] = ch} IN IF at = {} THEN 0 ELSE Min(at)

\* one attempt of r'on \[([^\]]+)\]\(([^)]+)\)' at position i
SourceMatchAt(s, i) ==
    LET close == FirstAt(s, i + 4, "]")
        paren == FirstAt(s, close + 2, ")")
    IN  /\ i + 3 <= Len(s)
        /\ SubSeq(s, i, i + 3) = <<"o", "n", " ", "[">>
        /\ close > i + 4
        /\ close + 1 <= Len(s)
        /\ s[close + 1] = "("
        /\ paren > close + 2

\* re.search(r'on \[([^\]]+)\]\(([^)]+)\)', s): the leftmost match
SourceMatch(s) ==
    LET starts == {i \in 1..Len(s) : SourceMatchAt(s, i)} IN
    IF starts = {} THEN None
    ELSE LET i == Min(starts)
             close == FirstAt(s, i + 4, "]")
             paren == FirstAt(s, close + 2, ")")
         IN  [group1 |-> SubSeq(s, i + 4, close - 1),
              group2 |-> SubSeq(s, close + 2, paren - 1)]

\* d[k] = v
Put(d, k, v) == (k :> v) @@ d

PublishedFields(metadata, stripped) ==
    LET source_match == SourceMatch(stripped)
        m1 == Put(metadata, "published", stripped)
    IN  IF source_match /= None
        THEN Put(Put(m1, "source_name", source_match.group1),
                 "source_url", source_match.group2)
        ELSE m1

RECURSIVE ScanLines(_, _, _)
\* the for loop over enumerate(lines), from (0-based) index i on
ScanLines(lines, i, metadata) ==
    IF i >= Len(lines) THEN [metadata |-> metadata, body_start |-> 0]
    ELSE LET stripped == Strip(lines[i + 1]) IN
         IF StartsWith(stripped, TitleMark)
         THEN ScanLines(lines, i + 1, Put(metadata, "title", Strip(From(stripped, 2))))
         ELSE IF StartsWith(stripped, AuthorMark)
         THEN ScanLines(lines, i + 1, Put(metadata, "author", Strip(From(stripped, 3))))
         ELSE IF StartsWith(stripped, PublishedMark)
         THEN ScanLines(lines, i + 1, PublishedFields(metadata, stripped))
         ELSE IF StartsWith(stripped, WordCountMark)
         THEN ScanLines(lines, i + 1, Put(metadata, "word_count", stripped))
         ELSE IF stripped = RuleLine
         THEN [metadata |-> metadata, body_start |-> i + 1]
         ELSE IF stripped = <<>>
         THEN ScanLines(lines, i + 1, metadata)
         ELSE [metadata |-> metadata, body_start |-> 0]

\* a parser that takes any rule line for the end of a front matter
FoundRuleOnly(scan) == scan.body_start > 0

FoundFrontMatter(scan) == DOMAIN scan.metadata /= {} /\ scan.body_start > 0

parse_front_matter(text) ==
    LET lines == Split(text)
        scan == ScanLines(lines, 0, EmptyDict)
    IN  IF FoundFrontMatter(scan)
        THEN [metadata |-> scan.metadata,
              body |-> Strip(Join(From(lines, scan.body_start)))]
        ELSE [metadata |-> EmptyDict, body |-> text]

(***************************************************************************)
(* html_to_telegraph_nodes                                                 *)
(*                                                                         *)
(* A parsed tree is a sequence of nodes; a node is a text leaf             *)
(* [text |-> s] or an element [name |-> t, attrs |-> dict, children |->    *)
(* sequence of nodes].                                                     *)
(***************************************************************************)
Text(s) == [text |-> s]

Elem(name, attrs, children) == [name |-> name, attrs |-> attrs, children |-> children]

IsText(element) == "text" \in DOMAIN element

\* the return values of process_element: None, a str, a list or a dict
Str(s) == [str |-> s]

List(l) == [list |-> l]

IsStr(x) == "str" \in DOMAIN x

IsList(x) == "list" \in DOMAIN x

IsNode(x) == "tag" \in DOMAIN x

\* `if processed:` on a return value of process_element
Truthy(x) ==
    IF x = None THEN FALSE
    ELSE IF IsStr(x) THEN x.str /= <<>>
    ELSE IF IsList(x) THEN x.list /= <<>>
    ELSE DOMAIN x /= {}

tag_map ==
    [h1 |-> "h3", h2 |-> "h3", h3 |-> "h4", h4 |-> "h4", h5 |-> "h4", h6 |-> "h4",
     p |-> "p", a |-> "a", strong |-> "strong", b |-> "strong", em |-> "em",
     i |-> "em", u |-> "u", s |-> "s", strike |-> "s", del |-> "s",
     code |-> "code", pre |-> "pre", blockquote |-> "blockquote", ul |-> "ul",
     ol |-> "ol", li |-> "li", br |-> "br", hr |-> "hr", img |-> "img",
     figure |-> "figure", figcaption |-> "figcaption", aside |-> "aside"]

\* tag_map.get(tag_name) is None
Unsupported(tag_name) == tag_name \notin DOMAIN tag_map

\* the tags process_element returns for without looking at the children
SelfClosing == {"br", "hr"}

\* element.get(k), as a truth value
HasAttr(element, k) == k \in DOMAIN element.attrs /\ element.attrs[k] /= <<>>

\* attrs built without looking at the tag name
NodeAttrsAnyTag(element) ==
    LET a1 == IF HasAttr(element, "href")
              THEN Put(EmptyDict, "href", element.attrs["href"]) ELSE EmptyDict
    IN  IF HasAttr(element, "src")
        THEN Put(a1, "src", element.attrs["src"]) ELSE a1

\* the attrs dict process_element builds
NodeAttrs(element) ==
    LET a1 == IF element.name = "a" /\ HasAttr(element, "href")
              THEN Put(EmptyDict, "href", element.attrs["href"]) ELSE EmptyDict
    IN  IF element.name = "img" /\ HasAttr(element, "src")
        THEN Put(a1, "src", element.attrs["src"]) ELSE a1

\* a loop body that appends a list as one item
GatherNested(processed) == IF Truthy(processed) THEN <<processed>> ELSE <<>>

\* the body of the loops over the children: extend with a list, append the rest
Gather(processed) ==
    IF Truthy(processed)
    THEN IF IsList(processed) THEN processed.list ELSE <<processed>>
    ELSE <<>>

\* a map that leaves h3 as it is
TelegraphTagKeepH3(tag_name) == IF tag_name = "h3" THEN "h3" ELSE tag_map[tag_name]

\* tag_map.get(tag_name), for a tag_name of the map
TelegraphTag(tag_name) == tag_map[tag_name]

\* node = {"tag": telegraph_tag}, with node["attrs"] = attrs `if attrs:`
BuildNode(telegraph_tag, attrs) ==
    IF DOMAIN attrs /= {}
    THEN [tag |-> telegraph_tag, attrs |-> attrs]
    ELSE [tag |-> telegraph_tag]

\* children attached without the `if children:` test
AttachAlways(node, children) == Put(node, "children", children)

\* node["children"] = children `if children:`
AttachChildren(node, children) ==
    IF children /= <<>> THEN Put(node, "children", children) ELSE node

RECURSIVE process_element(_), Collect(_)
\* for child in element.children: ... (also the loop over soup.children)
Collect(children) ==
    IF children = <<>> THEN <<>>
    ELSE Gather(process_element(Head(children))) \o Collect(Tail(children))

process_element(element) ==
    IF IsText(element)
    THEN IF Strip(element.text) /= <<>> THEN Str(element.text) ELSE None
    ELSE IF Unsupported(element.name)
    THEN LET children == Collect(element.children) IN
         IF children /= <<>> THEN List(children) ELSE None
    ELSE LET telegraph_tag == TelegraphTag(element.name)
             node == BuildNode(telegraph_tag, NodeAttrs(element))
         IN  IF telegraph_tag \in SelfClosing THEN node
             ELSE AttachChildren(node, Collect(element.children))

\* {"tag": "p", "children": [node]} for a str node
Paragraph(s) == [tag |-> "p", children |-> <<Str(s)>>]

\* no wrapping of plain text
WrapNothing(nodes) == nodes

\* Wrap plain text in paragraphs
WrapText(nodes) ==
    [k \in 1..Len(nodes) |->
        IF IsStr(nodes[k]) THEN Paragraph(nodes[k].str) ELSE nodes[k]]

html_to_telegraph_nodes(children) == WrapText(Collect(children))

RECURSIVE CallsOf(_)
\* the calls of process_element that process_element(element) makes, itself included
CallsOf(element) ==
    {[src |-> element, out |-> process_element(element)]}
    \cup IF IsText(element) THEN {}
         ELSE IF ~Unsupported(element.name) /\ TelegraphTag(element.name) \in SelfClosing
         THEN {}
         ELSE UNION {CallsOf(element.children[k]) : k \in 1..Len(element.children)}

(***************************************************************************)
(* create_page                                                             *)
(***************************************************************************)
MAX_CONTENT_SIZE == 64000

\* title[:256]
TitleLimit == 256

\* author_name[:128]
AuthorLimit == 128

\* the character e with an acute accent (U+00E9), as one character of a str
EAcute == "U+00E9"

NonAscii == {EAcute}

\* the keys of a node and of attrs as json.dumps writes them
KEY_TAG == <<"\"", "t", "a", "g", "\"", ":", " ">>

KEY_ATTRS == <<"\"", "a", "t", "t", "r", "s", "\"", ":", " ">>

KEY_CHILDREN == <<"\"", "c", "h", "i", "l", "d", "r", "e", "n", "\"", ":", " ">>

KEY_HREF == <<"\"", "h", "r", "e", "f", "\"", ":", " ">>

KEY_SRC == <<"\"", "s", "r", "c", "\"", ":", " ">>

\* the characters of a tag name
TagChars ==
    [h3 |-> <<"h", "3">>,
     h4 |-> <<"h", "4">>,
     p |-> <<"p">>,
     a |-> <<"a">>,
     strong |-> <<"s", "t", "r", "o", "n", "g">>,
     em |-> <<"e", "m">>,
     u |-> <<"u">>,
     s |-> <<"s">>,
     code |-> <<"c", "o", "d", "e">>,
     pre |-> <<"p", "r", "e">>,
     blockquote |-> <<"b", "l", "o", "c", "k", "q", "u", "o", "t", "e">>,
     ul |-> <<"u", "l">>,
     ol |-> <<"o", "l">>,
     li |-> <<"l", "i">>,
     br |-> <<"b", "r">>,
     hr |-> <<"h", "r">>,
     img |-> <<"i", "m", "g">>,
     figure |-> <<"f", "i", "g", "u", "r", "e">>,
     figcaption |-> <<"f", "i", "g", "c", "a", "p", "t", "i", "o", "n">>,
     aside |-> <<"a", "s", "i", "d", "e">>]

StrOf(tag) == TagChars[tag]

\* what json.dumps writes for one character of a str (ensure_ascii is on)
EscapeChar(c) ==
    IF c = "\"" THEN <<"\\", "\"">>
    ELSE IF c = "\\" THEN <<"\\", "\\">>
    ELSE IF c = "\n" THEN <<"\\", "n">>
    ELSE IF c = "\r" THEN <<"\\", "r">>
    ELSE IF c = "\t" THEN <<"\\", "t">>
    ELSE IF c = EAcute THEN <<"\\", "u", "0", "0", "e", "9">>
    ELSE <<c>>

RECURSIVE Escape(_)
\* the characters of a str, each escaped
Escape(s) ==
    LET special == {i \in 1..Len(s) : EscapeChar(s[i]) /= <<s[i]>>} IN
    IF special = {} THEN s
    ELSE SubSeq(s, 1, Min(special) - 1) \o EscapeChar(s[Min(special)])
         \o Escape(From(s, Min(special)))

JsonStr(s) == <<"\"">> \o Escape(s) \o <<"\"">>

\* json.dumps of the attrs dict: the keys in the order process_element sets them
JsonAttrs(attrs) ==
    LET href == IF "href" \in DOMAIN attrs
                THEN KEY_HREF \o JsonStr(attrs["href"]) ELSE <<>>
        src == IF "src" \in DOMAIN attrs
               THEN KEY_SRC \o JsonStr(attrs["src"]) ELSE <<>>
    IN  <<"{">> \o href
        \o (IF href /= <<>> /\ src /= <<>> THEN <<",", " ">> ELSE <<>>)
        \o src \o <<"}">>

RECURSIVE JsonItems(_), JsonValue(_)
\* the items of a list, separated by ", "
JsonItems(list) ==
    IF list = <<>> THEN <<>>
    ELSE IF Len(list) = 1 THEN JsonValue(list[1])
    ELSE JsonValue(list[1]) \o <<",", " ">> \o JsonItems(Tail(list))

\* json.dumps of a str or of a node, the keys of a node in insertion order
JsonValue(x) ==
    IF IsStr(x) THEN JsonStr(x.str)
    ELSE <<"{">> \o KEY_TAG \o JsonStr(StrOf(x.tag))
         \o (IF "attrs" \in DOMAIN x
             THEN <<",", " ">> \o KEY_ATTRS \o JsonAttrs(x.attrs) ELSE <<>>)
         \o (IF "children" \in DOMAIN x
             THEN <<",", " ">> \o KEY_CHILDREN \o <<"[">> \o JsonItems(x.children) \o <<"]">>
             ELSE <<>>)
         \o <<"}">>

\* json.dumps(content)
json_dumps(content) == <<"[">> \o JsonItems(content) \o <<"]">>

\* a size check that also refuses content of exactly the maximum size
TooLargeAtLimit(content_json) == Len(content_json) >= MAX_CONTENT_SIZE

\* len(content_json) > MAX_CONTENT_SIZE
TooLarge(content_json) == Len(content_json) > MAX_CONTENT_SIZE

\* a slice that stops one character early
SliceShort(s, n) == SubSeq(s, 1, IF n - 1 < Len(s) THEN n - 1 ELSE Len(s))

\* s[:n] of the title and of the author
Slice(s, n) == Prefix(s, n)

\* the request data create_page posts; author_name is None or [given |-> str]
PageData(token, title, content_json, author_name) ==
    LET data == [access_token |-> token,
                 title |-> Slice(title, TitleLimit),
                 content |-> content_json,
                 return_content |-> <<"f", "a", "l", "s", "e">>]
    IN  IF author_name /= None /\ author_name.given /= <<>>
        THEN Put(data, "author_name", Slice(author_name.given, AuthorLimit))
        ELSE data

\* create_page, given what the server answers to the POST
create_page(args, response) ==
    LET content_json == json_dumps(args.content) IN
    IF TooLarge(content_json)
    THEN [raised |-> "Content too large",
          bytes |-> Len(content_json), max |-> MAX_CONTENT_SIZE]
    ELSE LET data == PageData(args.token, args.title, content_json, args.author_name) IN
         IF response = "http error" THEN [raised |-> "HTTPError", data |-> data]
         ELSE IF response = "not ok" THEN [raised |-> "Failed to create page", data |-> data]
         ELSE [returned |-> "result", data |-> data]

Responses == {"http error", "not ok", "ok"}

(***************************************************************************)
(* get_or_create_token                                                     *)
(*                                                                         *)
(* TOKEN_FILE is None while the file is absent and [text |-> s] when it    *)
(* exists. An invocation leaves in token_run what it returned or raised,   *)
(* the file as it found it, and whether it sent the createAccount request. *)
(***************************************************************************)
\* a test that never finds the file
ExistsNever(file) == FALSE

\* TOKEN_FILE.exists()
Exists(file) == file /= None

\* TOKEN_FILE.read_text().strip()
ReadToken(file) == Strip(file.text)

\* TOKEN_FILE.write_text(token)
WriteToken(token) == [text |-> token]

(***************************************************************************)
(* The documents and trees the runs are given                              *)
(***************************************************************************)
\* at most this many lines in a document
MaxLines == 3

\* at most this many nodes in a generated tree
MaxNodes == 4

SampleLines ==
    { <<"#", " ", "T">>,
      <<"B", "y", " ", "A">>,
      PublishedMark \o <<" ", "o", "n", " ", "[", "S", "]", "(", "u", ")">>,
      WordCountMark \o <<" ", "5">>,
      RuleLine,
      <<" ">> \o RuleLine,
      <<>>,
      <<"x">>,
      <<" ", "x", " ">>,
      <<"#">> }

\* # Hello / By Jane / Published: 2024-01-01 on [Src](http://x.test) / --- / Body text.
ScenarioDocument ==
    Join(<< <<"#", " ", "H", "e", "l", "l", "o">>,
            <<"B", "y", " ", "J", "a", "n", "e">>,
            PublishedMark \o <<" ", "2", "0", "2", "4", "-", "0", "1", "-", "0", "1", " ",
                               "o", "n", " ", "[", "S", "r", "c", "]", "(",
                               "h", "t", "t", "p", ":", "/", "/", "x", ".", "t", "e", "s", "t", ")">>,
            RuleLine,
            <<"B", "o", "d", "y", " ", "t", "e", "x", "t", ".">> >>)

ScenarioMetadata ==
    [title |-> <<"H", "e", "l", "l", "o">>,
     author |-> <<"J", "a", "n", "e">>,
     published |-> PublishedMark \o
                   <<" ", "2", "0", "2", "4", "-", "0", "1", "-", "0", "1", " ",
                     "o", "n", " ", "[", "S", "r", "c", "]", "(",
                     "h", "t", "t", "p", ":", "/", "/", "x", ".", "t", "e", "s", "t", ")">>,
     source_name |-> <<"S", "r", "c">>,
     source_url |-> <<"h", "t", "t", "p", ":", "/", "/", "x", ".", "t", "e", "s", "t">>]

RECURSIVE LineSeqs(_)
\* the sequences of exactly n sample lines
LineSeqs(n) ==
    IF n = 0 THEN {<<>>}
    ELSE {<<l>> \o rest : l \in SampleLines, rest \in LineSeqs(n - 1)}

Documents == UNION {{Join(ls) : ls \in LineSeqs(n)} : n \in 1..MaxLines} \cup {ScenarioDocument}

NoAttrs == EmptyDict

Head0(name) == [name |-> name, attrs |-> NoAttrs]

ShapeTexts == {<<"x">>, <<" ">>}

ShapeHeads == {Head0("div"), Head0("p"), Head0("br")}

\* the forests of exactly n nodes over ShapeTexts and ShapeHeads, given in
\* table[k + 1] those of k nodes, for every k < n
ForestsOf(table, n) ==
    UNION {
      {<<t>> \o rest :
         t \in (IF k = 1 THEN {Text(x) : x \in ShapeTexts} ELSE {})
               \cup {Elem(h.name, h.attrs, f) : h \in ShapeHeads, f \in table[k]},
         rest \in table[n - k + 1]} : k \in 1..n}

RECURSIVE ForestTable(_, _)
\* the table of the forests of 0, 1, ..., most nodes
ForestTable(table, most) ==
    IF Len(table) > most THEN table
    ELSE ForestTable(Append(table, ForestsOf(table, Len(table))), most)

ShapeForests(most) ==
    LET table == ForestTable(<<{<<>>}>>, most) IN
    UNION {table[n + 1] : n \in 0..most}

TagNames == DOMAIN tag_map \cup {"div", "span"}

U == <<"u">>

AttrSamples ==
    { NoAttrs,
      [href |-> U],
      [href |-> <<>>],
      [src |-> U],
      [src |-> <<>>],
      [href |-> U, src |-> <<"v">>, class |-> <<"c">>] }

\* every tag, with every sample of attributes, in four places of a tree
TagForests ==
    UNION {
      LET leaf == Elem(t, a, <<>>)
          full == Elem(t, a, <<Text(<<"x">>)>>)
          deep == Elem(t, a, <<Text(<<" ">>), Elem("b", NoAttrs, <<Text(<<"x">>)>>)>>)
      IN  { <<leaf>>,
            <<full>>,
            <<Elem("div", NoAttrs, <<Text(<<"y">>), full>>)>>,
            <<Elem("p", NoAttrs, <<deep>>)>> }
      : t \in TagNames, a \in AttrSamples}

\* <h1>Title</h1><p>Hello <strong>world</strong></p>
ScenarioTree ==
    << Elem("h1", NoAttrs, <<Text(<<"T", "i", "t", "l", "e">>)>>),
       Elem("p", NoAttrs,
            << Text(<<"H", "e", "l", "l", "o", " ">>),
               Elem("strong", NoAttrs, <<Text(<<"w", "o", "r", "l", "d">>)>>) >>) >>

\* the trees given to html_to_telegraph_nodes, the generated ones of at most
\* `most` nodes
Trees(most) == ShapeForests(most) \cup TagForests \cup {ScenarioTree}

\* the longest title and author tried
LongText == 300

\* serialized sizes up to this far from MAX_CONTENT_SIZE are tried
SizeSlack == 2

Digits == <<"0", "1", "2", "3", "4", "5", "6", "7", "8", "9">>

\* a text of n characters, no two neighbours alike
TextOf(n) == [i \in 1..n |-> Digits[(i % 10) + 1]]

Titles ==
    {TextOf(n) : n \in {0, 1, TitleLimit - 1, TitleLimit, TitleLimit + 1, LongText}}

Authors ==
    {None, [given |-> <<>>]}
    \cup {[given |-> TextOf(n)] :
            n \in {1, AuthorLimit - 1, AuthorLimit, AuthorLimit + 1, LongText}}

\* a text whose single paragraph serializes to n characters, after the given start
FillTo(start, n) ==
    start \o [i \in 1..(n - Len(json_dumps(<<Paragraph(start)>>))) |-> "x"]

BigContents ==
    { <<Paragraph(FillTo(start, MAX_CONTENT_SIZE + d))>> :
        start \in {<<>>, <<EAcute>>, <<"\"", "\n", "\\">>},
        d \in (0 - SizeSlack)..SizeSlack }

SmallContents ==
    { html_to_telegraph_nodes(t) :
        t \in { <<>>, ScenarioTree,
                << Elem("a", [href |-> U], <<Text(<<EAcute, "\"">>)>>),
                   Elem("img", [src |-> U], <<>>) >> } }

AccessToken == <<"k">>

(***************************************************************************)
(* The runs                                                                *)
(***************************************************************************)
IdleFrontMatter == md_content = <<>> /\ fm_result = None

IdleTransform == soup = <<>> /\ final_nodes = <<>> /\ calls = {}

IdlePage == page_args = None /\ page_result = None

IdleToken == token_file = None /\ token_run = None /\ token_log = None

InitFrontMatter ==
    /\ pc = "parse"
    /\ md_content \in Documents
    /\ fm_result = None
    /\ IdleTransform /\ IdlePage /\ IdleToken

Parse ==
    /\ pc = "parse"
    /\ fm_result' = parse_front_matter(md_content)
    /\ pc' = "parsed"
    /\ UNCHANGED <<md_content, soup, final_nodes, calls,
                   page_args, page_result, token_file, token_run, token_log>>

SpecFrontMatter == InitFrontMatter /\ [][Parse]_vars

Init ==
    /\ pc = "transform"
    /\ soup \in Trees(MaxNodes)
    /\ final_nodes = <<>>
    /\ calls = {}
    /\ IdleFrontMatter /\ IdlePage /\ IdleToken

Transform ==
    /\ pc = "transform"
    /\ final_nodes' = html_to_telegraph_nodes(soup)
    /\ calls' = UNION {CallsOf(soup[k]) : k \in 1..Len(soup)}
    /\ pc' = "transformed"
    /\ UNCHANGED <<md_content, fm_result, soup,
                   page_args, page_result, token_file, token_run, token_log>>

Next == Transform

Spec == Init /\ [][Next]_vars

InitPage ==
    /\ pc = "page"
    /\ \/ page_args \in [token : {AccessToken}, title : Titles,
                         content : SmallContents, author_name : Authors]
       \/ page_args \in [token : {AccessToken}, title : {TextOf(1), TextOf(LongText)},
                         content : BigContents,
                         author_name : {None, [given |-> TextOf(LongText)]}]
    /\ page_result = None
    /\ IdleFrontMatter /\ IdleTransform /\ IdleToken

CreatePage ==
    /\ pc = "page"
    /\ \E response \in Responses : page_result' = create_page(page_args, response)
    /\ pc' = "posted"
    /\ UNCHANGED <<md_content, fm_result, soup, final_nodes, calls,
                   page_args, token_file, token_run, token_log>>

SpecPage == InitPage /\ [][CreatePage]_vars

\* at most this many invocations of get_or_create_token in a behaviour
MaxInvocations == 6

\* the access tokens the createAccount answers carry
ServerTokens == {<<"a">>, <<"b">>, <<" ", "a", "\n">>, <<>>}

\* the short_name arguments (--account-name, "anon" unless given)
ShortNames == {"anon", "me"}

\* the token files found at the first invocation, besides none
FoundFiles == {WriteToken(<<"c", "\n">>), WriteToken(<<"a">>)}

InitToken ==
    /\ pc = "token"
    /\ token_file \in {None} \cup FoundFiles
    /\ token_run = None
    /\ token_log = [invocations |-> 0, requests |-> 0, writes |-> 0, first |-> None]
    /\ IdleFrontMatter /\ IdleTransform /\ IdlePage

Invoked(requested, wrote) ==
    [token_log EXCEPT !.invocations = @ + 1,
                      !.requests = @ + (IF requested THEN 1 ELSE 0),
                      !.writes = @ + (IF wrote THEN 1 ELSE 0)]

\* the file exists: its text, stripped, is returned
GetToken ==
    /\ token_log.invocations < MaxInvocations
    /\ Exists(token_file)
    /\ token_run' = [returned |-> ReadToken(token_file), found |-> token_file,
                     requested |-> FALSE, wrote |-> FALSE]
    /\ token_log' = Invoked(FALSE, FALSE)
    /\ UNCHANGED <<pc, token_file, md_content, fm_result, soup, final_nodes, calls,
                   page_args, page_result>>

\* no file, and the request fails: raise_for_status raises, or the result is not ok
CreateAccountFails ==
    /\ token_log.invocations < MaxInvocations
    /\ ~Exists(token_file)
    /\ \E short_name \in ShortNames, error \in {"HTTPError", "Failed to create account"} :
          token_run' = [raised |-> error, found |-> token_file,
                        requested |-> TRUE, wrote |-> FALSE, short_name |-> short_name]
    /\ token_log' = Invoked(TRUE, FALSE)
    /\ UNCHANGED <<pc, token_file, md_content, fm_result, soup, final_nodes, calls,
                   page_args, page_result>>

\* no file, and the request gives a token: it is written and returned
CreateAccount ==
    /\ token_log.invocations < MaxInvocations
    /\ ~Exists(token_file)
    /\ \E short_name \in ShortNames, token \in ServerTokens :
          /\ token_file' = WriteToken(token)
          /\ token_run' = [returned |-> token, found |-> token_file,
                           requested |-> TRUE, wrote |-> TRUE, short_name |-> short_name]
          /\ token_log' = [Invoked(TRUE, TRUE) EXCEPT
                              !.first = IF @ = None THEN WriteToken(token) ELSE @]
    /\ UNCHANGED <<pc, md_content, fm_result, soup, final_nodes, calls,
                   page_args, page_result>>

NextToken == GetToken \/ CreateAccountFails \/ CreateAccount

SpecToken == InitToken /\ [][NextToken]_vars

(***************************************************************************)
(* Properties of parse_front_matter                                        *)
(***************************************************************************)
NewlinesOf(text) == {i \in 1..Len(text) : text[i] = "\n"}

NumLines(text) == Cardinality(NewlinesOf(text)) + 1

\* the position of the n-th newline of the text
NthNewline(text, n) ==
    CHOOSE q \in NewlinesOf(text) :
        Cardinality({r \in NewlinesOf(text) : r < q}) = n - 1

LineEnd(text, k) ==
    IF k = NumLines(text) THEN Len(text) ELSE NthNewline(text, k) - 1

\* the k-th line of the text, without its newline
LineOf(text, k) ==
    SubSeq(text, IF k = 1 THEN 1 ELSE NthNewline(text, k - 1) + 1, LineEnd(text, k))

\* the text strictly after the k-th line
AfterLine(text, k) == SubSeq(text, LineEnd(text, k) + 2, Len(text))

Trimmed(s) ==
    s = <<>> \/ (s[1] \notin Whitespace /\ s[Len(s)] \notin Whitespace)

\* t is s without its leading and trailing whitespace
IsTrimOf(t, s) ==
    /\ Trimmed(t)
    /\ \E lead \in 0..Len(s) :
          /\ lead + Len(t) <= Len(s)
          /\ SubSeq(s, lead + 1, lead + Len(t)) = t
          /\ \A i \in (1..lead) \cup ((lead + Len(t) + 1)..Len(s)) : s[i] \in Whitespace

FieldMarks ==
    [title |-> TitleMark, author |-> AuthorMark,
     published |-> PublishedMark, word_count |-> WordCountMark]

\* the line, trimmed, starts with the marker of the field
IsFieldLine(line, field) ==
    LET mark == FieldMarks[field] IN
    \E lead \in 0..Len(line) :
        /\ \A i \in 1..lead : line[i] \in Whitespace
        /\ lead + Len(mark) <= Len(line)
        /\ SubSeq(line, lead + 1, lead + Len(mark)) = mark
        /\ mark[Len(mark)] \in Whitespace
              => \E i \in (lead + Len(mark) + 1)..Len(line) : line[i] \notin Whitespace

IsRule(line) == IsTrimOf(RuleLine, line)

IsBlank(line) == \A i \in 1..Len(line) : line[i] \in Whitespace

IsHeaderLine(line) ==
    IsBlank(line) \/ \E field \in DOMAIN FieldMarks : IsFieldLine(line, field)

\* the lines that end a front matter: a rule with only header lines before it,
\* at least one of them a field
Terminators(text) ==
    {k \in 1..NumLines(text) :
        /\ IsRule(LineOf(text, k))
        /\ \A j \in 1..(k - 1) : IsHeaderLine(LineOf(text, j))
        /\ \E j \in 1..(k - 1) : ~IsBlank(LineOf(text, j))}

\* the fields the lines before line k record
FieldsBefore(text, k) ==
    {field \in DOMAIN FieldMarks :
        \E j \in 1..(k - 1) : IsFieldLine(LineOf(text, j), field)}

\* C1: parse_front_matter returns the accumulated metadata and the trimmed text
\* strictly after the terminator line exactly when the scan reaches a `---` line
\* with only field and empty lines before it and at least one field recorded;
\* in every other case it returns ({}, text), the text being the input unchanged.
C1_FrontMatterSplit ==
    pc = "parsed" =>
        LET ends == Terminators(md_content) IN
        IF ends /= {}
        THEN /\ IsTrimOf(fm_result.body, AfterLine(md_content, Min(ends)))
             /\ DOMAIN fm_result.metadata /= {}
             /\ DOMAIN fm_result.metadata \ {"source_name", "source_url"}
                    = FieldsBefore(md_content, Min(ends))
             /\ DOMAIN fm_result.metadata \cap {"source_name", "source_url"} /= {}
                    => "published" \in DOMAIN fm_result.metadata
             /\ md_content = ScenarioDocument
                    => fm_result = [metadata |-> ScenarioMetadata,
                                    body |-> <<"B", "o", "d", "y", " ", "t", "e", "x", "t", ".">>]
        ELSE /\ DOMAIN fm_result.metadata = {}
             /\ fm_result.body = md_content

\* a front matter was found and the body after it lost surrounding whitespace
C1_Witness ==
    /\ pc = "parsed"
    /\ Terminators(md_content) /= {}
    /\ fm_result.body /= <<>>
    /\ fm_result.body /= AfterLine(md_content, Min(Terminators(md_content)))

(***************************************************************************)
(* Properties of html_to_telegraph_nodes                                   *)
(***************************************************************************)
Transformed == pc = "transformed"

NonBlank(text) == \E i \in 1..Len(text) : text[i] \notin Whitespace

IsElement(x) == "name" \in DOMAIN x

\* the source tags of the mapping, with the output tag of each that changes
MappedTags ==
    {"h1", "h2", "h3", "h4", "h5", "h6", "p", "a", "strong", "b", "em", "i", "u",
     "s", "strike", "del", "code", "pre", "blockquote", "ul", "ol", "li", "br",
     "hr", "img", "figure", "figcaption", "aside"}

MappingOf(t) ==
    IF t \in {"h1", "h2"} THEN "h3"
    ELSE IF t \in {"h3", "h4", "h5", "h6"} THEN "h4"
    ELSE IF t = "b" THEN "strong"
    ELSE IF t = "i" THEN "em"
    ELSE IF t \in {"strike", "del"} THEN "s"
    ELSE t

AllowedTags ==
    {"h3", "h4", "p", "a", "strong", "em", "u", "s", "code", "pre", "blockquote",
     "ul", "ol", "li", "br", "hr", "img", "figure", "figcaption", "aside"}

\* the void tags of the specification
VoidTags == {"br", "hr", "img"}

\* what the call of process_element on the source node returned
OutOf(node) == (CHOOSE r \in calls : r.src = node).out

ChildrenOf(node) == IF "children" \in DOMAIN node THEN node.children ELSE <<>>

RECURSIVE Surviving(_)
\* the source nodes that reach the level of the forest: its non-blank texts and
\* mapped elements, and those of its unmapped elements' children, in source order
Surviving(forest) ==
    IF forest = <<>> THEN <<>>
    ELSE LET n == Head(forest) IN
         (IF IsText(n) THEN (IF NonBlank(n.text) THEN <<n>> ELSE <<>>)
          ELSE IF n.name \in MappedTags THEN <<n>>
          ELSE Surviving(n.children))
         \o Surviving(Tail(forest))

\* the output of each surviving source node, in place
Spliced(forest) ==
    LET top == Surviving(forest) IN
    [k \in 1..Len(top) |-> IF IsText(top[k]) THEN Str(top[k].text) ELSE OutOf(top[k])]

RECURSIVE NodesIn(_)
\* the structured nodes of an output list, at any depth
NodesIn(list) ==
    UNION {IF IsNode(list[k]) THEN {list[k]} \cup NodesIn(ChildrenOf(list[k])) ELSE {}
           : k \in 1..Len(list)}

\* the calls of process_element on elements
ElementCalls == {r \in calls : IsElement(r.src)}

\* every structured node of the output is the output of a call on an element, or
\* a paragraph put around a top-level text
OutputCovered ==
    \A n \in NodesIn(final_nodes) :
        \/ \E r \in ElementCalls : r.out = n
        \/ \E k \in 1..Len(final_nodes) :
              /\ final_nodes[k] = n
              /\ DOMAIN n = {"tag", "children"}
              /\ n.tag = "p" /\ Len(n.children) = 1 /\ IsStr(n.children[1])

\* C2: the returned sequence holds structured nodes only: no bare string is at the
\* top level, and each top-level text that survives, directly or from under
\* unmapped wrappers, is in exactly one p node whose only child is that string.
C2_TopLevelStructured ==
    Transformed =>
        LET top == Surviving(soup) IN
        /\ Len(final_nodes) = Len(top)
        /\ \A k \in 1..Len(final_nodes) :
              /\ IsNode(final_nodes[k])
              /\ IsText(top[k]) => final_nodes[k] = Paragraph(top[k].text)
              /\ IsElement(top[k]) => final_nodes[k] = OutOf(top[k])

\* a text directly at the top level and a text from under a wrapper, both wrapped
C2_Witness ==
    /\ Transformed
    /\ \E k \in 1..Len(soup) : IsText(soup[k]) /\ NonBlank(soup[k].text)
    /\ \E k \in 1..Len(soup) :
          /\ IsElement(soup[k]) /\ soup[k].name \notin MappedTags
          /\ \E j \in 1..Len(soup[k].children) :
                IsText(soup[k].children[j]) /\ NonBlank(soup[k].children[j].text)
    /\ Cardinality({k \in 1..Len(final_nodes) : final_nodes[k] = Paragraph(<<"x">>)}) >= 2

C4_UnmappedSpliced ==
    Transformed =>
        /\ Len(final_nodes) = Len(Spliced(soup))
        /\ \A k \in 1..Len(final_nodes) :
              \/ final_nodes[k] = Spliced(soup)[k]
              \/ IsStr(Spliced(soup)[k]) /\ ChildrenOf(final_nodes[k]) = <<Spliced(soup)[k]>>
        /\ \A r \in ElementCalls :
              IF r.src.name \in MappedTags
              THEN /\ IsNode(r.out)
                   /\ r.out.tag \notin {"br", "hr"}
                         => ChildrenOf(r.out) = Spliced(r.src.children)
              ELSE /\ ~IsNode(r.out)
                   /\ Spliced(r.src.children) = <<>> => r.out = None
                   /\ Spliced(r.src.children) /= <<>> => r.out = List(Spliced(r.src.children))
        /\ \A n \in NodesIn(final_nodes) :
              /\ n.tag \in AllowedTags
              /\ \A k \in 1..Len(ChildrenOf(n)) :
                    IsStr(ChildrenOf(n)[k]) \/ IsNode(ChildrenOf(n)[k])
        /\ OutputCovered

\* below a mapped element, a wrapper with content stands after a text
C4_Witness ==
    /\ Transformed
    /\ \E r \in ElementCalls :
          /\ r.src.name \in MappedTags
          /\ \E k \in 2..Len(r.src.children) :
                /\ IsElement(r.src.children[k])
                /\ r.src.children[k].name \notin MappedTags
                /\ Surviving(r.src.children[k].children) /= <<>>
                /\ IsText(r.src.children[k - 1]) /\ NonBlank(r.src.children[k - 1].text)
          /\ Len(ChildrenOf(r.out)) >= 2

\* the attrs a node may have, given the element it comes from
AttrsAllowed(element) ==
    {k \in {"href", "src"} :
        /\ k \in DOMAIN element.attrs
        /\ element.attrs[k] /= <<>>
        /\ element.name = (IF k = "href" THEN "a" ELSE "img")}

\* C5: in every output node attrs is absent or a non-empty mapping with no key but
\* href (source tag a, href present and non-empty) and src (source tag img, src
\* non-empty); an a element without href gives a node without attrs; no other
\* attribute of the source survives.
C5_AttrsFiltered ==
    Transformed =>
        /\ \A n \in NodesIn(final_nodes) :
              "attrs" \in DOMAIN n =>
                  /\ DOMAIN n.attrs /= {}
                  /\ DOMAIN n.attrs \subseteq {"href", "src"}
                  /\ "href" \in DOMAIN n.attrs => n.tag = "a" /\ n.attrs["href"] /= <<>>
                  /\ "src" \in DOMAIN n.attrs => n.tag = "img" /\ n.attrs["src"] /= <<>>
        /\ \A r \in ElementCalls :
              IsNode(r.out) =>
                  /\ "attrs" \in DOMAIN r.out <=> AttrsAllowed(r.src) /= {}
                  /\ "attrs" \in DOMAIN r.out =>
                        /\ DOMAIN r.out.attrs = AttrsAllowed(r.src)
                        /\ \A k \in DOMAIN r.out.attrs : r.out.attrs[k] = r.src.attrs[k]
        /\ OutputCovered

\* an a element with attributes but no href came out without attrs
C5_Witness ==
    /\ Transformed
    /\ \E r \in ElementCalls :
          /\ r.src.name = "a"
          /\ "href" \notin DOMAIN r.src.attrs
          /\ DOMAIN r.src.attrs /= {}
          /\ r.out \in NodesIn(final_nodes)
          /\ "attrs" \notin DOMAIN r.out

ScenarioNodes ==
    << [tag |-> "h3", children |-> <<Str(<<"T", "i", "t", "l", "e">>)>>],
       [tag |-> "p",
        children |-> << Str(<<"H", "e", "l", "l", "o", " ">>),
                        [tag |-> "strong",
                         children |-> <<Str(<<"w", "o", "r", "l", "d">>)>>] >>] >>

\* C8: every structured node has the tag the fixed mapping gives its source tag
\* (h1, h2 to h3; h3..h6 to h4; b to strong; i to em; strike, del to s; the others
\* to themselves), so output tags are in the allowed vocabulary and never h1, h2,
\* h5, h6, b, i, strike or del; the scenario tree gives the scenario nodes.
C8_TagMapping ==
    Transformed =>
        /\ \A r \in ElementCalls :
              /\ IsNode(r.out) <=> r.src.name \in MappedTags
              /\ IsNode(r.out) => r.out.tag = MappingOf(r.src.name)
        /\ \A n \in NodesIn(final_nodes) :
              /\ n.tag \in AllowedTags
              /\ n.tag \notin {"h1", "h2", "h5", "h6", "b", "i", "strike", "del"}
        /\ OutputCovered
        /\ soup = ScenarioTree => final_nodes = ScenarioNodes

\* the scenario of the specification
C8_Witness == Transformed /\ soup = ScenarioTree /\ final_nodes = ScenarioNodes

RECURSIVE NoContent(_)
\* nothing in the forest gives output: blank texts and wrappers of such only
NoContent(forest) ==
    \A k \in 1..Len(forest) :
        IF IsText(forest[k]) THEN ~NonBlank(forest[k].text)
        ELSE forest[k].name \notin MappedTags /\ NoContent(forest[k].children)

\* C9 as stated: a node of a non-void tag is without children only if the source
\* element has no child at all; children, when present, is not empty.
C9_ChildlessOnlyIfSourceChildless ==
    Transformed =>
        \A r \in ElementCalls :
            IsNode(r.out) =>
                /\ (r.out.tag \notin VoidTags /\ ChildrenOf(r.out) = <<>>)
                      => r.src.children = <<>>
                /\ "children" \in DOMAIN r.out => r.out.children /= <<>>

\* C9: a node of a non-void tag is without children only if the source element
\* has no transformable content (no child, or only blank texts and wrappers of
\* such); children, when present, is not empty.
C9_ChildlessOnlyIfNoContent ==
    Transformed =>
        /\ \A r \in ElementCalls :
              IsNode(r.out) =>
                  /\ (r.out.tag \notin VoidTags /\ ChildrenOf(r.out) = <<>>)
                        => NoContent(r.src.children)
                  /\ "children" \in DOMAIN r.out => r.out.children /= <<>>
        /\ OutputCovered

\* an element with a blank text only came out as a node without children
C9_Witness ==
    /\ Transformed
    /\ \E r \in ElementCalls :
          /\ IsNode(r.out)
          /\ r.out.tag \notin VoidTags
          /\ r.src.children /= <<>>
          /\ r.out \in NodesIn(final_nodes)
          /\ "children" \notin DOMAIN r.out

(***************************************************************************)
(* Properties of create_page                                               *)
(***************************************************************************)
Posted == pc = "posted"

AttrChars == [href |-> <<"h", "r", "e", "f">>, src |-> <<"s", "r", "c">>]

\* the bytes json.dumps writes for a str: quotes, two bytes for an escape with a
\* backslash, six for a character outside ASCII
StrBytes(s) ==
    2 + Len(s)
    + Cardinality({i \in 1..Len(s) : s[i] \in {"\"", "\\", "\n", "\r", "\t"}})
    + 5 * Cardinality({i \in 1..Len(s) : s[i] \in NonAscii})

RECURSIVE SumOf(_, _)
SumOf(f, S) == IF S = {} THEN 0 ELSE LET x == CHOOSE x \in S : TRUE IN f[x] + SumOf(f, S \ {x})

RECURSIVE NodeBytes(_)
\* the bytes json.dumps writes for a str or a node
NodeBytes(x) ==
    IF IsStr(x) THEN StrBytes(x.str)
    ELSE LET kids == ChildrenOf(x) IN
         2 + 7 + (2 + Len(StrOf(x.tag)))
         + (IF "attrs" \in DOMAIN x
            THEN 2 + 9 + 2 + SumOf([k \in DOMAIN x.attrs |-> Len(AttrChars[k]) + 4 + StrBytes(x.attrs[k])],
                                   DOMAIN x.attrs)
                 + 2 * (Cardinality(DOMAIN x.attrs) - 1)
            ELSE 0)
         + (IF "children" \in DOMAIN x
            THEN 2 + 12 + 2 + SumOf([k \in 1..Len(kids) |-> NodeBytes(kids[k])], 1..Len(kids))
                 + (IF kids = <<>> THEN 0 ELSE 2 * (Len(kids) - 1))
            ELSE 0)

\* the bytes of the serialized node sequence
ContentBytes(content) ==
    2 + SumOf([k \in 1..Len(content) |-> NodeBytes(content[k])], 1..Len(content))
    + (IF content = <<>> THEN 0 ELSE 2 * (Len(content) - 1))

\* the bytes of a str in UTF-8
Utf8Len(s) == Len(s) + Cardinality({i \in 1..Len(s) : s[i] \in NonAscii})

\* t is the first n characters of s, or all of s if it has fewer
IsFirst(t, s, n) ==
    /\ Len(t) = (IF Len(s) < n THEN Len(s) ELSE n)
    /\ \A i \in 1..Len(t) : t[i] = s[i]

\* C6: create_page fails with a size error that reports the actual size and
\* max = 64000 whenever the serialized content is over 64,000 bytes, and does not
\* fail the size check at 64,000 bytes or less; the size is the byte length of the
\* serialized node sequence, which is never truncated.
C6_SizeLimit ==
    Posted =>
        LET n == ContentBytes(page_args.content) IN
        IF n > 64000
        THEN /\ DOMAIN page_result = {"raised", "bytes", "max"}
             /\ page_result.raised = "Content too large"
             /\ page_result.bytes = n
             /\ page_result.max = 64000
        ELSE /\ "data" \in DOMAIN page_result
             /\ Utf8Len(page_result.data.content) = n
             /\ Len(page_result.data.content) = n

\* content of exactly 64,000 bytes, with escaped characters in it, was posted
C6_Witness ==
    /\ Posted
    /\ ContentBytes(page_args.content) = 64000
    /\ \E k \in 1..Len(page_args.content[1].children[1].str) :
          page_args.content[1].children[1].str[k] \in NonAscii
    /\ "returned" \in DOMAIN page_result

\* C7: with content within the size limit, the payload's title is the first 256
\* characters of the title and, when an author is given, author_name is its first
\* 128 characters; longer values are cut without an error, and author_name is
\* absent when no author is given (None, or the empty string).
C7_Truncation ==
    (Posted /\ ContentBytes(page_args.content) <= 64000) =>
        /\ "data" \in DOMAIN page_result
        /\ IsFirst(page_result.data.title, page_args.title, 256)
        /\ IF page_args.author_name = None
           THEN "author_name" \notin DOMAIN page_result.data
           ELSE IF page_args.author_name.given = <<>>
           THEN "author_name" \notin DOMAIN page_result.data
           ELSE /\ "author_name" \in DOMAIN page_result.data
                /\ IsFirst(page_result.data.author_name, page_args.author_name.given, 128)

\* a title and an author of 300 characters were posted as 256 and 128
C7_Witness ==
    /\ Posted
    /\ Len(page_args.title) = 300
    /\ page_args.author_name /= None
    /\ Len(page_args.author_name.given) = 300
    /\ "returned" \in DOMAIN page_result
    /\ Len(page_result.data.title) = 256
    /\ Len(page_result.data.author_name) = 128

(***************************************************************************)
(* Properties of get_or_create_token                                       *)
(***************************************************************************)
\* what holds of the file whatever the token is: it is written at most once, an
\* invocation that finds it sends no request and leaves it as it is, and a
\* failed createAccount leaves it absent
TokenFileWrittenOnce ==
    /\ token_log.writes <= 1
    /\ token_log.writes = 1 <=> token_log.first /= None
    /\ token_log.first /= None => token_file = token_log.first
    /\ token_run /= None =>
          /\ token_run.found /= None =>
                ~token_run.requested /\ ~token_run.wrote /\ token_file = token_run.found
          /\ "raised" \in DOMAIN token_run =>
                token_run.requested /\ token_file = None
          /\ token_run.wrote => token_run.requested /\ token_run.found = None

\* the latest invocation came after the first successful createAccount
AfterFirstSuccess == token_run /= None /\ token_log.first /= None /\ ~token_run.wrote

====
